---- MODULE Spec2Model ----
(***************************************************************************)
(* PCprox.py: protocol layer of the RFIDeas pcProx USB card reader.        *)
(*                                                                         *)
(* The model follows the program as it is run (python PCprox.py, Python 2):*)
(* lines 160-167 have executed, so the reader object exists and binascii   *)
(* is imported.  Byte strings are sequences of byte values 0..255, hex     *)
(* strings are sequences of one-character strings.  The device behind the  *)
(* transport is the environment: every exchange may answer any reply of    *)
(* the bounded reply sets below.                                           *)
(***************************************************************************)
EXTENDS Integers, Sequences, FiniteSets, TLC

(***************************************************************************)
(* Bounds of the model.                                                    *)
(***************************************************************************)
NumByteVals == 3      \* how many of ByteSamples a reply byte ranges over
MaxNonZero  == 2      \* at most this many non-zero bytes in a reply
MaxBeeps    == 8      \* beep counts tried: 0..MaxBeeps
MaxPolls    == 4      \* polls made by one pass of wait_until_card/none
MaxReports  == 2      \* report lines the script prints

ByteSamples == <<0, 1, 255, 18, 163, 2>>
ByteVals    == {ByteSamples[i] : i \in 1..NumByteVals}

\* the reference reply of the decoding rule: e2 a3 45 12 34 00 00 00
RefVector == <<226, 163, 69, 18, 52, 0, 0, 0>>

NonZeroCount(r) == Cardinality({i \in 1..8 : r[i] # 0})

\* for each hex digit d the reply whose sixteen digits are all d
DigitReplies == {[i \in 1..8 |-> 17 * d] : d \in 0..15}

\* replies ctrl_transfer(0xa1, 0x01, 0x0301, 0, 8) may hand back
Replies ==
    {r \in [1..8 -> ByteVals] : NonZeroCount(r) <= MaxNonZero}
        \cup {RefVector} \cup DigitReplies

\* replies to the four segment reads: only the first and the last byte vary
SegReplies ==
    {r \in Replies : NonZeroCount(r) <= 1 /\ \A i \in 2..7 : r[i] = 0}

\* replies to the polls of the wait loops: only the low four bytes vary
PollReplies ==
    {r \in Replies : NonZeroCount(r) <= 1 /\ \A i \in 5..8 : r[i] = 0}

\* replies of fewer than 8 bytes: a short control transfer
ShortReplies ==
    {SubSeq(r, 1, n) : r \in {RefVector, <<1, 0, 0, 0, 0, 0, 0, 0>>}, n \in 0..7}

\* the answers to a poll that the loops tell apart: no card, a card whose
\* digits [9:14] are 00000, card 1
LiveReplies ==
    {<<1, 0, 0, 0, 0, 0, 0, 0>>, <<0, 0, 0, 0, 0, 0, 0, 0>>, <<0, 1, 0, 0, 0, 0, 0, 0>>}

AnyReplies == PollReplies \cup {RefVector} \cup ShortReplies

AnySegReplies ==
    {[i \in 1..8 |-> 0], RefVector} \cup {SubSeq(RefVector, 1, n) : n \in {0, 7}}

AnyPollReplies ==
    LiveReplies \cup
    {SubSeq(r, 1, n) : r \in {<<1, 0, 0, 0, 0, 0, 0, 0>>, <<0, 0, 1, 0, 0, 0, 0, 0>>},
                       n \in {0, 6, 7}}

\* what is on the reader while a segment is read: nothing, or one of two cards
Cards == {"none", "A", "B"}

\* the reply to the read of segment i (0..3) while card c is on the reader
CardSegment(c, i) ==
    LET v == IF c = "A" THEN 1 ELSE IF c = "B" THEN 255 ELSE 0 IN
    [j \in 1..8 |-> IF j = (IF i % 2 = 0 THEN 1 ELSE 8) THEN v ELSE 0]

(***************************************************************************)
(* Python values and operators used by the code.                           *)
(***************************************************************************)
None == -1                                   \* Python None (never an id)

\* fault variant of Truthy: only None is falsy
Truthy_is_not_none(v) == v # None

Truthy(v) == v # None /\ v # 0               \* bool(v) for None and ints

Reverse(s) == [i \in 1..Len(s) |-> s[Len(s) + 1 - i]]     \* s[::-1]

Min(a, b) == IF a < b THEN a ELSE b

\* s[lo:hi] for 0 <= lo <= hi: Python clamps the slice to the string
PySlice(s, lo, hi) == SubSeq(s, Min(lo, Len(s)) + 1, Min(hi, Len(s)))

RECURSIVE BitAnd(_, _)
BitAnd(a, b) ==                               \* a & b
    IF a = 0 \/ b = 0 THEN 0
    ELSE (a % 2) * (b % 2) + 2 * BitAnd(a \div 2, b \div 2)

RECURSIVE BitOr(_, _)
BitOr(a, b) ==                                \* a | b
    IF a = 0 THEN b
    ELSE IF b = 0 THEN a
    ELSE (IF a % 2 = 1 \/ b % 2 = 1 THEN 1 ELSE 0)
         + 2 * BitOr(a \div 2, b \div 2)

RECURSIVE pow(_, _)
pow(b, e) == IF e = 0 THEN 1 ELSE b * pow(b, e - 1)

(***************************************************************************)
(* Command catalog (class RFIDReader).  PCT_C marks the %c of a template.  *)
(***************************************************************************)
PCT_C == -2

COMMAND_GET_CARD_ID     == <<143, 0, 0, 0, 0, 0, 0, 0>>
COMMAND_GET_CARD_ID_32  == <<141, PCT_C, 0, 0, 0, 0, 0, 0>>
COMMAND_GET_CARD_ID_EXTRA_INFO == <<142, 0, 0, 0, 0, 0, 0, 0>>
COMMAND_BEEP            == <<140, 3, PCT_C, 0, 0, 0, 0, 0>>
COMMAND_GET_MODEL       == <<140, 1, PCT_C, 0, 0, 0, 0, 0>>
COMMAND_CONFIG_FIELD_82 == <<130, 0, 0, 0, 0, 0, 0, 0>>
COMMAND_GET_VERSION     == <<138, 0, 0, 0, 0, 0, 0, 0>>

\* template % c
Format(template, c) ==
    [i \in 1..Len(template) |-> IF template[i] = PCT_C THEN c ELSE template[i]]

(***************************************************************************)
(* Transport spy: what send_bytes / exchange_bytes were called with.       *)
(***************************************************************************)
Exchange(cmd) == [kind |-> "exchange_bytes", cmd |-> cmd]
Send(cmd)     == [kind |-> "send_bytes", cmd |-> cmd]


(***************************************************************************)
(* Protocol client: the values the reader operations return, as functions  *)
(* of the replies the transport handed back.                               *)
(***************************************************************************)
\* fault variant of get_card_id: the reply is not reversed
get_card_id_unreversed(reply) == reply

\* get_card_id: exchange_bytes(COMMAND_GET_CARD_ID)[::-1], joined as chars
get_card_id(reply) == Reverse(reply)

\* fault variant of get_card_id_32_join: segments joined in request order
get_card_id_32_join_ascending(id32_0, id32_1, id32_2, id32_3) ==
    id32_0 \o id32_1 \o id32_2 \o id32_3

\* return id32_3 + id32_2 + id32_1 + id32_0
get_card_id_32_join(id32_0, id32_1, id32_2, id32_3) ==
    id32_3 \o id32_2 \o id32_1 \o id32_0

\* fault variant of get_card_id_32_internal: the reply is not used
get_card_id_32_internal_blank(reply) == [j \in 1..8 |-> 0]

\* get_card_id_32_internal: the value made of the reply to segment i
get_card_id_32_internal(reply) == Reverse(reply)

\* fault variant of beep_assert: the lower limit is off by one
beep_assert_from_zero(num_beeps) == num_beeps >= 0 /\ num_beeps <= 7

\* assert num_beeps >= 1 and num_beeps <= 7
beep_assert(num_beeps) == num_beeps >= 1 /\ num_beeps <= 7

\* COMMAND_BEEP % (num_beeps + (0x80 if long_beeps else 0))
beep_command(num_beeps, long_beeps) ==
    Format(COMMAND_BEEP, num_beeps + (IF long_beeps THEN 128 ELSE 0))

\* fault variant of led_state_byte0: the colour bits are and-ed
led_state_byte0_and(red, green) ==
    BitAnd(IF red THEN 1 ELSE 0, IF green THEN 2 ELSE 0)

\* ((1 if red else 0) | (2 if green else 0))
led_state_byte0(red, green) ==
    BitOr(IF red THEN 1 ELSE 0, IF green THEN 2 ELSE 0)

\* old_data after the two assignments of set_led_auto (the array returned
\* by exchange_bytes is changed in place)
set_led_auto_data(old_data) ==
    [old_data EXCEPT ![1] = 0, ![2] = BitAnd(old_data[2], 253)]

\* fault variant of set_led_state_data: bit 0x02 of byte 1 is toggled
set_led_state_data_toggle(old_data, red, green) ==
    [old_data EXCEPT ![1] = led_state_byte0(red, green),
                     ![2] = IF BitAnd(old_data[2], 2) = 2
                            THEN old_data[2] - 2 ELSE old_data[2] + 2]

\* old_data after the two assignments of set_led_state
set_led_state_data(old_data, red, green) ==
    [old_data EXCEPT ![1] = led_state_byte0(red, green),
                     ![2] = BitOr(old_data[2], 2)]

\* fault variant of led_payload: a copy taken before the change is sent
led_payload_as_read(old_data, changed) == old_data

\* send_bytes(old_data): old_data names the array that was changed in place
led_payload(old_data, changed) == changed

\* fault variant of led_calls: the selector write is left out
led_calls_no_selector(payload) ==
    <<Exchange(COMMAND_CONFIG_FIELD_82), Send(payload)>>

\* the transport calls of set_led_auto / set_led_state, in program order
led_calls(payload) ==
    <<Exchange(COMMAND_CONFIG_FIELD_82),
      Send(COMMAND_CONFIG_FIELD_82),
      Send(payload)>>

(***************************************************************************)
(* Card presence decoder.                                                  *)
(***************************************************************************)
\* fault variant of hexlify_digits: upper-case digits
hexlify_digits_upper ==
    <<"0", "1", "2", "3", "4", "5", "6", "7",
      "8", "9", "A", "B", "C", "D", "E", "F">>

\* the digits binascii.hexlify writes
hexlify_digits ==
    <<"0", "1", "2", "3", "4", "5", "6", "7",
      "8", "9", "a", "b", "c", "d", "e", "f">>

\* binascii.hexlify(data): two digits per byte, high nibble first
hexlify(data) ==
    [i \in 1..(2 * Len(data)) |->
        IF i % 2 = 1 THEN hexlify_digits[(data[(i + 1) \div 2] \div 16) + 1]
                     ELSE hexlify_digits[(data[i \div 2] % 16) + 1]]

hd_dict ==
    ("0" :> 0) @@ ("1" :> 1) @@ ("2" :> 2) @@ ("3" :> 3) @@
    ("4" :> 4) @@ ("5" :> 5) @@ ("6" :> 6) @@ ("7" :> 7) @@
    ("8" :> 8) @@ ("9" :> 9) @@ ("a" :> 10) @@ ("b" :> 11) @@
    ("c" :> 12) @@ ("d" :> 13) @@ ("e" :> 14) @@ ("f" :> 15)

\* for i in range(len(hex_num)): dec_num += hd_dict[hex_num[i]] * pow(16, i)
RECURSIVE hex_to_dec_loop(_, _)
hex_to_dec_loop(hex_num, i) ==
    IF i >= Len(hex_num) THEN 0
    ELSE hd_dict[hex_num[i + 1]] * pow(16, i) + hex_to_dec_loop(hex_num, i + 1)

\* fault variant of hex_to_dec: the digits are not reversed before the loop
hex_to_dec_unreversed(hex_num) ==
    IF \E i \in 1..Len(hex_num) : hex_num[i] \notin DOMAIN hd_dict
    THEN [outcome |-> "KeyError", value |-> None]
    ELSE [outcome |-> "ok", value |-> hex_to_dec_loop(hex_num, 0)]

\* hex_to_dec: a digit missing from hd_dict raises KeyError
hex_to_dec(hex_num) ==
    IF \E i \in 1..Len(hex_num) : hex_num[i] \notin DOMAIN hd_dict
    THEN [outcome |-> "KeyError", value |-> None]
    ELSE [outcome |-> "ok", value |-> hex_to_dec_loop(Reverse(hex_num), 0)]

\* str(binascii.hexlify(rdr.get_card_id()))
raw_card_info(reply) == hexlify(get_card_id(reply))

SENTINEL == <<"0", "0", "0", "0", "0", "0", "0", "0",
              "0", "0", "0", "0", "0", "0", "0", "1">>

\* dec_card_id: None for the sentinel, else the number in digits [9:14]
dec_card_id(reply) ==
    IF raw_card_info(reply) = SENTINEL
    THEN [outcome |-> "ok", value |-> None]
    ELSE hex_to_dec(PySlice(raw_card_info(reply), 9, 14))

(***************************************************************************)
(* Transport (class RFIDReaderUSB) and exceptions.                         *)
(***************************************************************************)
\* assert len(cmd) == 8 in send_bytes and exchange_bytes
length_ok(cmd) == Len(cmd) = 8

\* how many of these calls hand back a reply
exchanges_in(cs) == Cardinality({i \in 1..Len(cs) : cs[i].kind = "exchange_bytes"})

\* the call at which a run of the calls of plan ends with an exception, 0 if
\* none does: the first call whose command fails the length assertion or
\* whose control transfer raises (call number fault; 0: no transfer raises)
stop_at(plan, fault) ==
    IF \E i \in 1..Len(plan) : ~length_ok(plan[i].cmd) \/ i = fault
    THEN CHOOSE i \in 1..Len(plan) :
            /\ ~length_ok(plan[i].cmd) \/ i = fault
            /\ \A j \in 1..(i - 1) : length_ok(plan[j].cmd) /\ j # fault
    ELSE 0

\* straight-line code making the calls of plan, the exchanges answered by
\* rs in order: the calls made, the replies handed back, how it ended
transport_run(plan, rs, fault) ==
    LET k == stop_at(plan, fault) IN
    IF k = 0
    THEN [calls |-> plan, replies |-> rs, outcome |-> "ok", fault |-> 0]
    ELSE [calls   |-> SubSeq(plan, 1, k),
          replies |-> SubSeq(rs, 1, exchanges_in(SubSeq(plan, 1, k - 1))),
          outcome |-> IF length_ok(plan[k].cmd) THEN "USBError"
                                                ELSE "AssertionError",
          fault   |-> IF length_ok(plan[k].cmd) THEN k ELSE 0]

\* fault variant of propagate: the exception is swallowed and the caller
\* goes on from where it was
propagate_swallowed(pc_now) == pc_now

\* no try/except in lines 35-177: an exception ends the program
propagate(pc_now) == "raised"

\* where a call that ended with this outcome leaves the program
ended(how, pc_now) == IF how = "ok" THEN "done" ELSE propagate(pc_now)

(***************************************************************************)
(* State.  RFIDReader keeps nothing between calls but its transport, so a  *)
(* behaviour runs one reader operation, or the loop of main() or of the    *)
(* script (lines 169-177), from the state after construction.              *)
(***************************************************************************)
VARIABLES
    pc,        \* where the program is: "idle", "done", "raised", or in a loop
    op,        \* the operation called
    args,      \* its arguments
    calls,     \* transport spy: the calls the latest operation (in the loops:
               \* the latest poll) made, in order
    replies,   \* the replies exchange_bytes handed back to those calls
    outcome,   \* "ok" or the exception that ended the operation
    result,    \* the value a reader operation returned
    card_id,   \* value of dec_card_id; local card_id of the wait loops
    detected,  \* card_id of the loop: what wait_until_card returned
    hist,      \* did decoded poll i yield a card (not None): the polls since
               \* the pass began (main) or since the latest report (script)
    fault,     \* number of the transport call whose transfer raised, else 0
    stop,      \* the environment has raised a stop signal
    reports,   \* the "Card on reader"/"Card off the reader." lines printed
    shown_raw  \* the hex string printed as "Raw data"

vars == <<pc, op, args, calls, replies, outcome, result, card_id, detected,
          hist, fault, stop, reports, shown_raw>>

\* what only the script and the environment change
script_vars == <<stop, reports, shown_raw>>

NoArgs == [num_beeps |-> 0, long_beeps |-> FALSE, red |-> FALSE, green |-> FALSE]

Init ==
    /\ pc = "idle"
    /\ op = "none"
    /\ args = NoArgs
    /\ calls = <<>>
    /\ replies = <<>>
    /\ outcome = "ok"
    /\ result = <<>>
    /\ card_id = None
    /\ detected = None
    /\ hist = <<>>
    /\ fault = 0
    /\ stop = FALSE
    /\ reports = <<>>
    /\ shown_raw = <<>>

\* the transport part of an operation's effect
ran(run) ==
    /\ calls' = run.calls
    /\ replies' = run.replies
    /\ outcome' = run.outcome
    /\ fault' = run.fault

(***************************************************************************)
(* Reader operations (class RFIDReader), each a whole call.  The last      *)
(* parameter says which transport call raises (0: none).                   *)
(***************************************************************************)
call_get_card_id(reply, failing) ==
    LET run == transport_run(<<Exchange(COMMAND_GET_CARD_ID)>>, <<reply>>, failing) IN
    /\ pc = "idle"
    /\ op' = "get_card_id"
    /\ ran(run)
    /\ result' = IF run.outcome = "ok" THEN get_card_id(reply) ELSE <<>>
    /\ pc' = ended(run.outcome, pc)
    /\ UNCHANGED <<args, card_id, detected, hist, script_vars>>

get_card_id_32(r0, r1, r2, r3, failing) ==
    LET run == transport_run(
                   [i \in 1..4 |-> Exchange(Format(COMMAND_GET_CARD_ID_32, i - 1))],
                   <<r0, r1, r2, r3>>, failing) IN
    /\ pc = "idle"
    /\ op' = "get_card_id_32"
    /\ ran(run)
    /\ result' = IF run.outcome = "ok"
                 THEN get_card_id_32_join(get_card_id_32_internal(r0),
                                          get_card_id_32_internal(r1),
                                          get_card_id_32_internal(r2),
                                          get_card_id_32_internal(r3))
                 ELSE <<>>
    /\ pc' = ended(run.outcome, pc)
    /\ UNCHANGED <<args, card_id, detected, hist, script_vars>>

beep(num_beeps, long_beeps, reply, failing) ==
    LET run == transport_run(<<Exchange(beep_command(num_beeps, long_beeps))>>,
                             <<reply>>, failing) IN
    /\ pc = "idle"
    /\ op' = "beep"
    /\ args' = [NoArgs EXCEPT !.num_beeps = num_beeps, !.long_beeps = long_beeps]
    /\ IF beep_assert(num_beeps)
       THEN /\ ran(run)
            /\ pc' = ended(run.outcome, pc)
       ELSE /\ calls' = <<>>
            /\ replies' = <<>>
            /\ outcome' = "AssertionError"
            /\ fault' = 0
            /\ pc' = propagate(pc)
    /\ UNCHANGED <<result, card_id, detected, hist, script_vars>>

get_model(m0, m1, m2, failing) ==
    LET run == transport_run(
                   [i \in 1..3 |-> Exchange(Format(COMMAND_GET_MODEL, i - 1))],
                   <<m0, m1, m2>>, failing) IN
    /\ pc = "idle"
    /\ op' = "get_model"
    /\ ran(run)
    /\ result' = IF run.outcome = "ok" THEN m0 \o m1 \o m2 ELSE <<>>
    /\ pc' = ended(run.outcome, pc)
    /\ UNCHANGED <<args, card_id, detected, hist, script_vars>>

\* struct.unpack("<H", ...) of the first two bytes; fewer than two bytes
\* raise struct.error
get_additional_id_info(reply, failing) ==
    LET run == transport_run(<<Exchange(COMMAND_GET_CARD_ID_EXTRA_INFO)>>,
                             <<reply>>, failing) IN
    /\ pc = "idle"
    /\ op' = "get_additional_id_info"
    /\ calls' = run.calls
    /\ replies' = run.replies
    /\ fault' = run.fault
    /\ IF run.outcome = "ok" /\ Len(reply) < 2
       THEN outcome' = "struct.error" /\ result' = <<>> /\ pc' = propagate(pc)
       ELSE /\ outcome' = run.outcome
            /\ result' = IF run.outcome = "ok"
                         THEN <<reply[1] + 256 * reply[2]>> ELSE <<>>
            /\ pc' = ended(run.outcome, pc)
    /\ UNCHANGED <<args, card_id, detected, hist, script_vars>>

get_version(reply, failing) ==
    LET run == transport_run(<<Exchange(COMMAND_GET_VERSION)>>, <<reply>>, failing) IN
    /\ pc = "idle"
    /\ op' = "get_version"
    /\ ran(run)
    /\ result' = IF run.outcome = "ok" THEN reply ELSE <<>>
    /\ pc' = ended(run.outcome, pc)
    /\ UNCHANGED <<args, card_id, detected, hist, script_vars>>

\* set_led_auto / set_led_state after the arguments are bound: the exchange,
\* the two item assignments (IndexError on a reply shorter than two bytes),
\* the two sends
led_run(reply, changed, failing) ==
    IF failing = 1
    THEN transport_run(<<Exchange(COMMAND_CONFIG_FIELD_82)>>, <<reply>>, 1)
    ELSE IF Len(reply) < 2
    THEN [calls |-> <<Exchange(COMMAND_CONFIG_FIELD_82)>>, replies |-> <<reply>>,
          outcome |-> "IndexError", fault |-> 0]
    ELSE transport_run(led_calls(led_payload(reply, changed)), <<reply>>, failing)

set_led_auto(reply, failing) ==
    LET run == led_run(reply, set_led_auto_data(reply), failing) IN
    /\ pc = "idle"
    /\ op' = "set_led_auto"
    /\ ran(run)
    /\ pc' = ended(run.outcome, pc)
    /\ UNCHANGED <<args, result, card_id, detected, hist, script_vars>>

set_led_state(red, green, reply, failing) ==
    LET run == led_run(reply, set_led_state_data(reply, red, green), failing) IN
    /\ pc = "idle"
    /\ op' = "set_led_state"
    /\ args' = [NoArgs EXCEPT !.red = red, !.green = green]
    /\ ran(run)
    /\ pc' = ended(run.outcome, pc)
    /\ UNCHANGED <<result, card_id, detected, hist, script_vars>>

\* set_led_state called once more with the same arguments on a device that
\* answers the read of config field 0x82 with the payload it was sent
set_led_state_again ==
    LET reply == calls[3].cmd
        run == led_run(reply, set_led_state_data(reply, args.red, args.green), 0) IN
    /\ pc = "done"
    /\ op = "set_led_state"
    /\ ran(run)
    /\ pc' = "done_again"
    /\ UNCHANGED <<op, args, result, card_id, detected, hist, script_vars>>

(***************************************************************************)
(* Module functions.                                                       *)
(***************************************************************************)
\* dec_card_id(rdr) with its one exchange: the transport run and the value
poll(reply, failing) ==
    LET run == transport_run(<<Exchange(COMMAND_GET_CARD_ID)>>, <<reply>>, failing) IN
    IF run.outcome = "ok"
    THEN [run EXCEPT !.outcome = dec_card_id(reply).outcome]
             @@ [value |-> dec_card_id(reply).value]
    ELSE run @@ [value |-> None]

call_dec_card_id(reply, failing) ==
    /\ pc = "idle"
    /\ op' = "dec_card_id"
    /\ ran(poll(reply, failing))
    /\ card_id' = poll(reply, failing).value
    /\ pc' = ended(poll(reply, failing).outcome, pc)
    /\ UNCHANGED <<args, result, detected, hist, script_vars>>

\* main(): rdr exists; the first pass of while True enters wait_until_card,
\* which sets its card_id to None
main ==
    /\ pc = "idle"
    /\ pc' = "wait_until_card"
    /\ op' = "main"
    /\ card_id' = None
    /\ UNCHANGED <<args, calls, replies, outcome, result, detected, hist,
                   fault, script_vars>>

\* the script: lines 160-170, like main()
script ==
    /\ pc = "idle"
    /\ pc' = "wait_until_card"
    /\ op' = "__main__"
    /\ card_id' = None
    /\ UNCHANGED <<args, calls, replies, outcome, result, detected, hist,
                   fault, script_vars>>

\* the polls of the window of MaxPolls polls that is kept
record(h, present) == IF Len(h) < MaxPolls THEN Append(h, present) ELSE <<present>>

\* where the caller goes on when wait_until_card has returned
after_wait_until_card(caller) ==
    IF caller = "__main__" THEN "report_card" ELSE "wait_until_none"

\* fault variant of after_wait_until_none: the script goes on to the report
\* of the next card
after_wait_until_none_no_report(caller) ==
    IF caller = "__main__" THEN "report_card" ELSE "main_loop"

\* where the caller goes on when wait_until_none has returned
after_wait_until_none(caller) ==
    IF caller = "__main__" THEN "report_off" ELSE "main_loop"

\* one pass of "while not card_id": poll, then return card_id if it is truthy
wait_until_card_poll(reply, failing) ==
    LET p == poll(reply, failing) IN
    /\ pc = "wait_until_card"
    /\ ran(p)
    /\ IF p.outcome = "ok"
       THEN /\ card_id' = p.value
            /\ hist' = record(hist, p.value # None)
            /\ IF Truthy(p.value)
               THEN pc' = after_wait_until_card(op) /\ detected' = p.value
               ELSE pc' = "wait_until_card" /\ detected' = detected
       ELSE pc' = propagate(pc) /\ UNCHANGED <<card_id, detected, hist>>
    /\ UNCHANGED <<op, args, result, script_vars>>

\* the poll of line 135 or one pass of "while card_id": poll, then return
\* if card_id is falsy
wait_until_none_poll(reply, failing) ==
    LET p == poll(reply, failing) IN
    /\ pc = "wait_until_none"
    /\ ran(p)
    /\ IF p.outcome = "ok"
       THEN /\ card_id' = p.value
            /\ hist' = record(hist, p.value # None)
            /\ pc' = IF Truthy(p.value)
                     THEN "wait_until_none" ELSE after_wait_until_none(op)
       ELSE pc' = propagate(pc) /\ UNCHANGED <<card_id, hist>>
    /\ UNCHANGED <<op, args, result, detected, script_vars>>

\* the same, for at most MaxPolls polls in a row
wait_until_card(reply, failing) ==
    Len(hist) < MaxPolls /\ wait_until_card_poll(reply, failing)

wait_until_none(reply, failing) ==
    Len(hist) < MaxPolls /\ wait_until_none_poll(reply, failing)

\* while True: the next pass of main() enters wait_until_card again
main_loop ==
    /\ pc = "main_loop"
    /\ pc' = "wait_until_card"
    /\ card_id' = None
    /\ hist' = <<>>
    /\ calls' = <<>>
    /\ replies' = <<>>
    /\ UNCHANGED <<op, args, outcome, result, detected, fault, script_vars>>

\* lines 171-174: print the number, poll again for the raw data, print it
report_card(reply) ==
    /\ pc = "report_card"
    /\ Len(reports) < MaxReports
    /\ reports' = Append(reports, "Card on reader")
    /\ ran(transport_run(<<Exchange(COMMAND_GET_CARD_ID)>>, <<reply>>, 0))
    /\ shown_raw' = raw_card_info(reply)
    /\ hist' = <<>>
    /\ pc' = "wait_until_none"
    /\ UNCHANGED <<op, args, result, card_id, detected, stop>>

\* lines 176-177 and the next pass of while True
report_off ==
    /\ pc = "report_off"
    /\ Len(reports) < MaxReports
    /\ reports' = Append(reports, "Card off the reader.")
    /\ pc' = "wait_until_card"
    /\ card_id' = None
    /\ hist' = <<>>
    /\ UNCHANGED <<op, args, calls, replies, outcome, result, detected, fault,
                   stop, shown_raw>>

\* the environment raises a stop signal; no line of the program reads one
stop_signal ==
    /\ ~stop
    /\ stop' = TRUE
    /\ UNCHANGED <<pc, op, args, calls, replies, outcome, result, card_id,
                   detected, hist, fault, reports, shown_raw>>

(***************************************************************************)
(* Spec: the transport works and every reply has 8 bytes.                  *)
(***************************************************************************)
Next ==
    \/ \E reply \in Replies : call_get_card_id(reply, 0)
    \/ \E r0, r1, r2, r3 \in SegReplies : get_card_id_32(r0, r1, r2, r3, 0)
    \/ \E num_beeps \in 0..MaxBeeps, long_beeps \in BOOLEAN, reply \in SegReplies :
          beep(num_beeps, long_beeps, reply, 0)
    \/ \E m0, m1, m2 \in SegReplies : get_model(m0, m1, m2, 0)
    \/ \E reply \in Replies : get_additional_id_info(reply, 0)
    \/ \E reply \in Replies : get_version(reply, 0)
    \/ \E reply \in Replies : set_led_auto(reply, 0)
    \/ \E red, green \in BOOLEAN, reply \in Replies : set_led_state(red, green, reply, 0)
    \/ set_led_state_again
    \/ \E reply \in Replies : call_dec_card_id(reply, 0)
    \/ main
    \/ \E reply \in PollReplies : wait_until_card(reply, 0)
    \/ \E reply \in PollReplies : wait_until_none(reply, 0)
    \/ main_loop

Spec == Init /\ [][Next]_vars

(***************************************************************************)
(* SpecScript: the file run as a script, lines 159-177.                    *)
(***************************************************************************)
NextScript ==
    \/ script
    \/ \E reply \in PollReplies : wait_until_card(reply, 0)
    \/ \E reply \in PollReplies : report_card(reply)
    \/ \E reply \in PollReplies : wait_until_none(reply, 0)
    \/ report_off

SpecScript == Init /\ [][NextScript]_vars

(***************************************************************************)
(* SpecFaulty: any control transfer may raise, and a reply may be short.   *)
(***************************************************************************)
NextFaulty ==
    \/ \E reply \in AnyReplies, f \in 0..1 : call_get_card_id(reply, f)
    \/ \E r0, r1, r2, r3 \in AnySegReplies, f \in 0..4 :
          get_card_id_32(r0, r1, r2, r3, f)
    \/ \E num_beeps \in 0..MaxBeeps, long_beeps \in BOOLEAN, reply \in AnySegReplies,
          f \in 0..1 : beep(num_beeps, long_beeps, reply, f)
    \/ \E m0, m1, m2 \in AnySegReplies, f \in 0..3 : get_model(m0, m1, m2, f)
    \/ \E reply \in AnyReplies, f \in 0..1 : get_additional_id_info(reply, f)
    \/ \E reply \in AnyReplies, f \in 0..1 : get_version(reply, f)
    \/ \E reply \in AnyReplies, f \in 0..3 : set_led_auto(reply, f)
    \/ \E red, green \in BOOLEAN, reply \in AnyReplies, f \in 0..3 :
          set_led_state(red, green, reply, f)
    \/ \E reply \in AnyReplies, f \in 0..1 : call_dec_card_id(reply, f)
    \/ main
    \/ \E reply \in AnyPollReplies, f \in 0..1 : wait_until_card(reply, f)
    \/ \E reply \in AnyPollReplies, f \in 0..1 : wait_until_none(reply, f)
    \/ main_loop

SpecFaulty == Init /\ [][NextFaulty]_vars

(***************************************************************************)
(* SpecLive: the wait loops of main() without a limit on the polls.  The   *)
(* interpreter keeps running the loop it is in.                            *)
(***************************************************************************)
Polling ==
    \/ \E reply \in LiveReplies : wait_until_card_poll(reply, 0)
    \/ \E reply \in LiveReplies : wait_until_none_poll(reply, 0)
    \/ main_loop

NextLive ==
    \/ main
    \/ Polling
    \/ stop_signal

SpecLive == Init /\ [][NextLive]_vars /\ WF_vars(Polling)

(***************************************************************************)
(* Properties.                                                             *)
(***************************************************************************)
\* the reply the device gives when no card is on it: 01 00 00 00 00 00 00 00
NoCardReply == <<1, 0, 0, 0, 0, 0, 0, 0>>

\* the latest operation was a call of dec_card_id (directly or as a poll)
DecCalled == op = "dec_card_id" \/ (op = "main" /\ replies # <<>>)

\* bit 0x02 of byte b
Bit1(b) == (b \div 2) % 2

LedOp == op \in {"set_led_auto", "set_led_state"}

\* C1: beep with a count outside 1..7 raises the argument error and the
\* transport sees no call at all; with a count in 1..7 it makes exactly one
\* exchange (and no send).
C1_BeepRange ==
    op = "beep" =>
        IF args.num_beeps \in 1..7
        THEN /\ outcome = "ok"
             /\ Len(calls) = 1
             /\ calls[1].kind = "exchange_bytes"
        ELSE /\ outcome = "AssertionError"
             /\ calls = <<>>

C1_Witness ==
    /\ op = "beep"
    /\ args.num_beeps \in {0, 8}
    /\ outcome = "AssertionError"
    /\ calls = <<>>

\* C2: get_card_id_32 makes exactly four exchanges, asking for segments
\* 0,1,2,3 in that order with the index at command offset 1, and returns
\* reverse(S3) ++ reverse(S2) ++ reverse(S1) ++ reverse(S0) of the replies.
C2_ExtendedId ==
    op = "get_card_id_32" =>
        /\ Len(calls) = 4
        /\ \A i \in 1..4 :
              calls[i] = [kind |-> "exchange_bytes",
                          cmd  |-> <<141, i - 1, 0, 0, 0, 0, 0, 0>>]
        /\ Len(result) = 32
        /\ \A k \in 0..3 : \A j \in 1..8 :
              result[8 * k + j] = replies[4 - k][9 - j]

C2_Witness ==
    /\ op = "get_card_id_32"
    /\ replies[1] = <<1, 0, 0, 0, 0, 0, 0, 0>>
    /\ replies[4] = <<0, 0, 0, 0, 0, 0, 0, 255>>
    /\ result[1] = 255
    /\ result[32] = 1

\* C3: dec_card_id returns None exactly for the reply 01 00 00 00 00 00 00 00;
\* every other reply yields a number, also when its digits are all zero.
C3_AbsentIffSentinel ==
    DecCalled =>
        /\ (card_id = None) <=> (replies[1] = NoCardReply)
        /\ replies[1] # NoCardReply => card_id >= 0

C3_Witness ==
    /\ op = "dec_card_id"
    /\ replies[1] = <<0, 0, 0, 0, 0, 0, 0, 1>>
    /\ card_id = 0

\* C4: for a reply r other than the no-card reply the number is
\* (r[3] mod 16) * 65536 + r[2] * 256 + r[1] (bytes counted from 0), so it
\* lies in 0..1048575 and depends on no other part of r.
C4_CardNumber ==
    (DecCalled /\ replies[1] # NoCardReply) =>
        /\ card_id = (replies[1][4] % 16) * 65536
                     + replies[1][3] * 256 + replies[1][2]
        /\ card_id \in 0..1048575

C4_Witness ==
    /\ op = "dec_card_id"
    /\ replies[1] = RefVector
    /\ card_id = 148899

\* C5: dec_card_id never raises on an 8-byte reply: it ends with None or
\* with a number.
C5_DecodeTotal ==
    DecCalled =>
        /\ Len(replies[1]) = 8
        /\ outcome = "ok"
        /\ pc # "raised"
        /\ card_id = None \/ card_id \in Nat

C5_Witness ==
    /\ op = "dec_card_id"
    /\ replies[1][2] = 255
    /\ replies[1][4] = 255
    /\ outcome = "ok"
    /\ card_id = 15 * 65536 + 255

\* C6: set_led_state(red, green) ends with a data write whose byte 0 is
\* (red ? 1 : 0) | (green ? 2 : 0) -- 3 for (true, true) -- and whose byte 1
\* has bit 0x02 set, whatever was read from config field 0x82.
C6_LedState ==
    op = "set_led_state" =>
        /\ calls[Len(calls)].kind = "send_bytes"
        /\ calls[Len(calls)].cmd[1] =
              (IF args.red THEN 1 ELSE 0) + (IF args.green THEN 2 ELSE 0)
        /\ (args.red /\ args.green) => calls[Len(calls)].cmd[1] = 3
        /\ Bit1(calls[Len(calls)].cmd[2]) = 1

C6_Witness ==
    /\ op = "set_led_state"
    /\ args.red /\ args.green
    /\ replies[1][1] = 0
    /\ Bit1(replies[1][2]) = 0
    /\ calls[3].cmd[1] = 3
    /\ calls[3].cmd[2] = 3

\* C7 as stated: the payload of the final data write of set_led_auto and
\* set_led_state is the 8 bytes as they were read from config field 0x82.
C7_PayloadAsRead ==
    LedOp => calls[Len(calls)].cmd = replies[1]

\* C7 amended: the payload of the final data write is the changed
\* configuration: byte 0 is 0 (auto) or the colour bits (state), byte 1 is
\* the byte read with bit 0x02 cleared (auto) or set (state), bytes 2..7 are
\* as read.
C7_PayloadChanged ==
    LedOp =>
        /\ \A i \in 3..8 : calls[Len(calls)].cmd[i] = replies[1][i]
        /\ op = "set_led_auto" =>
              /\ calls[Len(calls)].cmd[1] = 0
              /\ calls[Len(calls)].cmd[2] = replies[1][2] - 2 * Bit1(replies[1][2])
        /\ op = "set_led_state" =>
              /\ calls[Len(calls)].cmd[1] =
                    (IF args.red THEN 1 ELSE 0) + (IF args.green THEN 2 ELSE 0)
              /\ calls[Len(calls)].cmd[2] =
                    replies[1][2] + 2 * (1 - Bit1(replies[1][2]))

C7_Witness ==
    /\ op = "set_led_auto"
    /\ replies[1] = <<1, 255, 0, 0, 0, 0, 0, 0>>
    /\ calls[3].cmd = <<0, 253, 0, 0, 0, 0, 0, 0>>

\* C8: set_led_auto and set_led_state make exactly three transport calls:
\* the exchange of the config-field-0x82 command, a send of the same command,
\* a send of the 8-byte payload; one reply is read, by the exchange.  The
\* payload of set_led_auto has byte 0 = 0 and bit 0x02 of byte 1 cleared.
C8_LedCalls ==
    LedOp =>
        /\ Len(calls) = 3
        /\ calls[1] = [kind |-> "exchange_bytes",
                       cmd  |-> <<130, 0, 0, 0, 0, 0, 0, 0>>]
        /\ calls[2] = [kind |-> "send_bytes",
                       cmd  |-> <<130, 0, 0, 0, 0, 0, 0, 0>>]
        /\ calls[3].kind = "send_bytes"
        /\ Len(calls[3].cmd) = 8
        /\ Len(replies) = 1
        /\ op = "set_led_auto" =>
              calls[3].cmd[1] = 0 /\ Bit1(calls[3].cmd[2]) = 0

C8_Witness ==
    /\ op = "set_led_auto"
    /\ replies[1][1] = 255
    /\ replies[1][2] = 255
    /\ Len(calls) = 3
    /\ calls[3].cmd[2] = 253

\* the polls of this pass are those of a device that answers "present" for
\* n polls and "absent" on every later poll
MockScript(n) == \A i \in 1..Len(hist) : hist[i] = (i <= n)

AbsentPolls == Cardinality({i \in 1..Len(hist) : ~hist[i]})

\* C9: against a device that answers "present" for N >= 1 polls and "absent"
\* afterwards, wait_until_card followed by wait_until_none returns after
\* exactly N+1 polls, one of them answered "absent" (and so never makes a
\* poll N+2).
C9_Fencepost ==
    op = "main" =>
        \A n \in 1..MaxPolls :
            MockScript(n) =>
                /\ Len(hist) <= n + 1
                /\ pc = "main_loop" => (Len(hist) = n + 1 /\ AbsentPolls = 1)

\* C10: wait_until_card returns at the first poll that decodes to "present",
\* whatever its number: it is still polling only while every reply so far
\* was the no-card reply, and what it returns is the number of its last poll.
C10_ReturnsAtFirstPresent ==
    op = "main" =>
        /\ pc = "wait_until_card" => \A i \in 1..Len(hist) : ~hist[i]
        /\ pc = "wait_until_none" /\ Len(hist) = 1 => detected = card_id

\* C11: wait_until_none returns only after a poll answered with the no-card
\* reply: when it has returned, the reply of its last poll was "absent".
C11_ReturnsOnlyWhenAbsent ==
    (op = "main" /\ pc = "main_loop") => replies[1] = NoCardReply


\* C12: a transport call whose control transfer raises ends the operation
\* at that call: the exception reaches the caller, the failing call is the
\* last one made (no retry, no later exchange or send), and only the
\* exchanges before it handed back a reply.
C12_TransportFailureAborts ==
    fault # 0 =>
        /\ pc = "raised"
        /\ outcome = "USBError"
        /\ Len(calls) = fault
        /\ Len(replies) = exchanges_in(SubSeq(calls, 1, fault - 1))
        /\ \A i \in 1..(fault - 1) : calls[i] # calls[fault]

\* the second segment read of get_card_id_32 raised
C12_Witness ==
    /\ op = "get_card_id_32"
    /\ fault = 2
    /\ pc = "raised"
    /\ Len(replies) = 1

\* C13: every command handed to the transport has 8 bytes, and an operation
\* that was handed a reply of another length does not end normally.
C13_EightBytes ==
    /\ \A i \in 1..Len(calls) : Len(calls[i].cmd) = 8
    /\ \A i \in 1..Len(replies) : Len(replies[i]) # 8 => outcome # "ok"

\* C14: decoding the presence of a card from a reply of fewer than 7 bytes
\* (a hex string of fewer than 14 characters) fails explicitly.
C14_ShortReplyFails ==
    \A i \in 1..Len(replies) :
        (op \in {"dec_card_id", "main"} /\ Len(replies[i]) < 7) => outcome # "ok"


\* C15: the wait loops can be cancelled from outside: once a stop signal is
\* raised, wait_until_card and wait_until_none each come to an end, whatever
\* the device answers.
C15_Cancellable ==
    /\ (stop /\ pc = "wait_until_card") ~> (pc # "wait_until_card")
    /\ (stop /\ pc = "wait_until_none") ~> (pc # "wait_until_none")


\* the card on the reader changed once, between two of the four exchanges
CardChanged ==
    \E c1, c2 \in Cards : \E k \in 1..3 :
        /\ c1 # c2
        /\ \A i \in 1..4 :
              replies[i] = CardSegment(IF i <= k THEN c1 ELSE c2, i - 1)

\* the 32 bytes get_card_id_32 returns when card c stays on the reader
WholeId(c) ==
    get_card_id_32_join(Reverse(CardSegment(c, 0)), Reverse(CardSegment(c, 1)),
                        Reverse(CardSegment(c, 2)), Reverse(CardSegment(c, 3)))

\* C16: the four segment reads are not atomic: when the card is removed or
\* replaced between two of the exchanges, get_card_id_32 ends normally and
\* returns the segments as each exchange read them, a value that is the
\* id of no card (and not the value read from an empty reader).
C16_NotAtomic ==
    (op = "get_card_id_32" /\ CardChanged) =>
        /\ pc = "done"
        /\ outcome = "ok"
        /\ \A k \in 0..3 : \A j \in 1..8 :
              result[8 * k + j] = replies[4 - k][9 - j]
        /\ \A c \in Cards : result # WholeId(c)

\* card A is taken off the reader after the second exchange
C16_Witness ==
    /\ op = "get_card_id_32"
    /\ pc = "done"
    /\ CardChanged
    /\ replies[2] = CardSegment("A", 1)
    /\ replies[3] = CardSegment("none", 2)


\* C17: the payload set_led_auto and set_led_state write keeps bytes 2..7
\* of the reply read from config field 0x82 and every bit of byte 1 but
\* 0x02; set_led_state run again with the same arguments, on a device that
\* answers with the payload it was sent, writes that same payload.
C17_LedPreserves ==
    (LedOp /\ pc \in {"done", "done_again"}) =>
        /\ \A i \in 3..8 : calls[3].cmd[i] = replies[1][i]
        /\ BitAnd(calls[3].cmd[2], 253) = BitAnd(replies[1][2], 253)
        /\ pc = "done_again" => calls[3].cmd = replies[1]

\* the second set_led_state, on a stored payload with other bits of byte 1
\* and a later byte set
C17_Witness ==
    /\ op = "set_led_state"
    /\ pc = "done_again"
    /\ args.green
    /\ replies[1][2] = 255
    /\ replies[1][8] = 1


C19_ReportsAlternate ==
    /\ [](\A i \in 1..Len(reports) :
             reports[i] = IF i % 2 = 1 THEN "Card on reader"
                                       ELSE "Card off the reader.")
    /\ [][(Len(reports') > Len(reports)
           /\ reports'[Len(reports')] = "Card off the reader.")
          => (hist # <<>> /\ card_id \in {None, 0}
              /\ card_id = dec_card_id(replies[1]).value)]_vars

\* a card was reported on and then off
C19_Witness ==
    /\ reports = <<"Card on reader", "Card off the reader.">>
    /\ pc = "wait_until_card"

\* C20: the raw data the script prints after a detection belongs to the
\* card it detected: it is not the no-card string and its digits [9:14]
\* decode to the number printed before it.
C20_RawDataOfDetectedCard ==
    (reports # <<>> /\ reports[Len(reports)] = "Card on reader") =>
        /\ shown_raw # SENTINEL
        /\ hex_to_dec(PySlice(shown_raw, 9, 14)).value = detected

====
